---- MODULE Spec2Model ----
(***************************************************************************)
(* Model of costco_wild_cod_price_checker_schedule_email.py: the price     *)
(* check run (check_price_scheduled), the alert e-mail, the JSON and CSV   *)
(* recorders and the job that ties them together.                          *)
(*                                                                         *)
(* Text is a sequence of one-character strings.  A decimal number is the   *)
(* record [num, exp] standing for num / 10^exp, kept without trailing      *)
(* zeros, so that two records are equal exactly when the numbers are.      *)
(* float() is exact for every digit string the bounds below can produce    *)
(* (fewer than 16 significant digits).                                     *)
(***************************************************************************)
EXTENDS Integers, Sequences, FiniteSets, TLC

(***************************************************************************)
(* Bounds of the model.                                                    *)
(***************************************************************************)
\* longest enumerated page body, in characters
MaxLen == 4
\* number of scheduled runs followed in scheduler mode
MaxRuns == 2
\* longest enumerated value of the TARGET_PRICE environment variable
MaxEnvLen == 3

(***************************************************************************)
(* Characters, digits and decimal numbers.                                 *)
(***************************************************************************)
DigitChars == <<"0", "1", "2", "3", "4", "5", "6", "7", "8", "9">>

IsDigit(c) == \E i \in 1..10 : DigitChars[i] = c

DigitVal(c) == (CHOOSE i \in 1..10 : DigitChars[i] = c) - 1

RECURSIVE Pow10(_)
Pow10(n) == IF n = 0 THEN 1 ELSE 10 * Pow10(n - 1)

Dec(n, e) == [num |-> n, exp |-> e]

RECURSIVE Normalise(_)
Normalise(d) ==
    IF d.exp > 0 /\ d.num % 10 = 0
    THEN Normalise(Dec(d.num \div 10, d.exp - 1))
    ELSE d

\* a < b and a <= b on decimals (Python's float comparison)
Lt(a, b) == a.num * Pow10(b.exp) < b.num * Pow10(a.exp)
Le(a, b) == a.num * Pow10(b.exp) <= b.num * Pow10(a.exp)

\* float(s) for s matching \d+\.?\d* : digits, an optional point, digits
RECURSIVE FloatFrom(_, _, _, _)
FloatFrom(s, i, acc, seenPoint) ==
    IF i > Len(s) THEN Normalise(acc)
    ELSE IF s[i] = "." THEN FloatFrom(s, i + 1, acc, TRUE)
    ELSE FloatFrom(s, i + 1,
                   Dec(acc.num * 10 + DigitVal(s[i]),
                       IF seenPoint THEN acc.exp + 1 ELSE acc.exp),
                   seenPoint)

Float(s) == FloatFrom(s, 1, Dec(0, 0), FALSE)

(***************************************************************************)
(* Regular expressions of the run.                                         *)
(***************************************************************************)
\* first index >= i of t that holds no digit (Len(t) + 1 when there is none)
RECURSIVE DigitsEnd(_, _)
DigitsEnd(t, i) ==
    IF i <= Len(t) /\ IsDigit(t[i]) THEN DigitsEnd(t, i + 1) ELSE i

\* \d+\.?\d* matched greedily at index i: the index after the match, or 0
NumberEnd(t, i) ==
    IF i > Len(t) \/ ~IsDigit(t[i]) THEN 0
    ELSE LET e == DigitsEnd(t, i)
         IN  IF e <= Len(t) /\ t[e] = "." THEN DigitsEnd(t, e + 1) ELSE e

\* re.findall(r'\$(\d+\.?\d*)', t): the groups of the matches, left to right,
\* each search resuming where the match before it ended
RECURSIVE PriceMatchesFrom(_, _)
PriceMatchesFrom(t, i) ==
    IF i > Len(t) THEN <<>>
    ELSE IF t[i] = "$" /\ NumberEnd(t, i + 1) # 0
         THEN <<SubSeq(t, i + 1, NumberEnd(t, i + 1) - 1)>>
                  \o PriceMatchesFrom(t, NumberEnd(t, i + 1))
         ELSE PriceMatchesFrom(t, i + 1)

PriceMatches(t) == PriceMatchesFrom(t, 1)

\* re.findall(r'\d+\.?\d*', t)
RECURSIVE NumberMatchesFrom(_, _)
NumberMatchesFrom(t, i) ==
    IF i > Len(t) THEN <<>>
    ELSE IF NumberEnd(t, i) # 0
         THEN <<SubSeq(t, i, NumberEnd(t, i) - 1)>>
                  \o NumberMatchesFrom(t, NumberEnd(t, i))
         ELSE NumberMatchesFrom(t, i + 1)

NumberMatches(t) == NumberMatchesFrom(t, 1)

(***************************************************************************)
(* String helpers: str.lower, the "in" test, str.strip, str.replace.       *)
(***************************************************************************)
UpperChars == <<"A", "B", "C", "D", "E", "F", "G", "H", "I", "J", "K", "L", "M",
                "N", "O", "P", "Q", "R", "S", "T", "U", "V", "W", "X", "Y", "Z">>
LowerChars == <<"a", "b", "c", "d", "e", "f", "g", "h", "i", "j", "k", "l", "m",
                "n", "o", "p", "q", "r", "s", "t", "u", "v", "w", "x", "y", "z">>

LowerChar(c) ==
    IF \E i \in 1..26 : UpperChars[i] = c
    THEN LowerChars[CHOOSE i \in 1..26 : UpperChars[i] = c]
    ELSE c

\* the text compared as it is, case and all
Lower_CaseKept(t) == t

\* t.lower()
Lower(t) == [i \in 1..Len(t) |-> LowerChar(t[i])]

\* needle in hay
Contains(hay, needle) ==
    \E i \in 1..(Len(hay) - Len(needle) + 1) :
        SubSeq(hay, i, i + Len(needle) - 1) = needle

\* t.strip(): leading and trailing white space removed
RECURSIVE Strip(_)
Strip(t) ==
    IF t = <<>> THEN t
    ELSE IF Head(t) = " " THEN Strip(Tail(t))
    ELSE IF t[Len(t)] = " " THEN Strip(SubSeq(t, 1, Len(t) - 1))
    ELSE t

\* t.replace("$", "")
RECURSIVE RemoveDollar(_)
RemoveDollar(t) ==
    IF t = <<>> THEN t
    ELSE IF Head(t) = "$" THEN RemoveDollar(Tail(t))
    ELSE <<Head(t)>> \o RemoveDollar(Tail(t))

AddToCart == <<"a", "d", "d", " ", "t", "o", " ", "c", "a", "r", "t">>

(***************************************************************************)
(* The parsed page (the BeautifulSoup tree).  An optional value is a       *)
(* sequence of length 0 (None) or 1.                                       *)
(*   h1     : the first <h1>, if any                                       *)
(*   body   : the text outside the elements below                          *)
(*   sel[k] : the first element matching price_selectors[k], if any        *)
(*   button : the first <button>, if any; its string is part of the page   *)
(*            text unless it is a comment node (visible = FALSE)           *)
(* Document order is h1, body, sel[1], sel[2], sel[3], button.             *)
(***************************************************************************)
None == <<>>
Some(x) == <<x>>
IsSome(o) == o # <<>>
The(o) == o[1]

TextOf(o) == IF IsSome(o) THEN The(o) ELSE <<>>

\* soup.get_text(): every text node of the page, concatenated
GetText(page) ==
    TextOf(page.h1) \o page.body
        \o TextOf(page.sel[1]) \o TextOf(page.sel[2]) \o TextOf(page.sel[3])
        \o (IF IsSome(page.button) /\ The(page.button).visible
            THEN The(page.button).str ELSE <<>>)

\* 'Title not found'
DefaultTitle ==
    <<"T", "i", "t", "l", "e", " ", "n", "o", "t", " ", "f", "o", "u", "n", "d">>

\* title_element.get_text(strip=True), or the default title
ProductTitle(page) ==
    IF IsSome(page.h1) THEN Strip(The(page.h1)) ELSE DefaultTitle

(***************************************************************************)
(* Price extraction.                                                       *)
(***************************************************************************)
RangeLow == Dec(10, 0)
RangeHigh == Dec(50, 0)

InRange(v) == Le(RangeLow, v) /\ Le(v, RangeHigh)

\* the loop without its break: the last reasonable price wins
RECURSIVE FirstReasonable_NoBreak(_, _)
FirstReasonable_NoBreak(matches, k) ==
    IF k > Len(matches) THEN None
    ELSE IF IsSome(FirstReasonable_NoBreak(matches, k + 1))
         THEN FirstReasonable_NoBreak(matches, k + 1)
    ELSE IF InRange(Float(matches[k])) THEN Some(Float(matches[k]))
    ELSE None

\* the loop over price_matches from index k: the first reasonable price
RECURSIVE FirstReasonable(_, _)
FirstReasonable(matches, k) ==
    IF k > Len(matches) THEN None
    ELSE IF InRange(Float(matches[k])) THEN Some(Float(matches[k]))
    ELSE FirstReasonable(matches, k + 1)

TextPrice(page_text) == FirstReasonable(PriceMatches(page_text), 1)

\* the numbers found in the element of one selector
PriceNumbers(elem) == NumberMatches(RemoveDollar(Strip(elem)))

\* the loop over price_selectors from index k
RECURSIVE SelectorPrice(_, _)
SelectorPrice(page, k) ==
    IF k > 3 THEN None
    ELSE IF IsSome(page.sel[k]) /\ PriceNumbers(The(page.sel[k])) # <<>>
         THEN Some(Float(PriceNumbers(The(page.sel[k]))[1]))
         ELSE SelectorPrice(page, k + 1)

\* current_price after both strategies
CurrentPrice(page) ==
    IF IsSome(TextPrice(GetText(page))) THEN TextPrice(GetText(page))
    ELSE SelectorPrice(page, 1)

\* soup.find("button", string=re.compile("add to cart", re.IGNORECASE))
CartButton(page) ==
    IsSome(page.button) /\ Contains(Lower(The(page.button).str), AddToCart)

Availability(page) ==
    IF Contains(Lower(GetText(page)), AddToCart) THEN "Available"
    ELSE IF CartButton(page) THEN "Available"
    ELSE "Unavailable"

\* the comparison taken the wrong way round
BelowTarget_Reversed(price, target) == Lt(target, price)

\* the comparison with <= for <
BelowTarget_OrEqual(price, target) == Le(price, target)

BelowTarget(price, target) == Lt(price, target)

(***************************************************************************)
(* The observation (result_data) and the ways a run fills it.  An error    *)
(* message is a sequence of its parts; None when there is none.            *)
(***************************************************************************)
\* result_data as first built; timestamp, date and time are the run's number
InitialResult(ts, target) ==
    [timestamp     |-> ts,
     target_price  |-> target,
     price         |-> None,
     availability  |-> "Unknown",
     below_target  |-> FALSE,
     product_title |-> DefaultTitle,
     success       |-> FALSE,
     error_message |-> None,
     email_sent    |-> FALSE]

\* except TimeoutException around the ZIP code entry
ZipFailed(rd) ==
    [rd EXCEPT !.error_message = <<"Failed to handle ZIP code entry">>]

\* except Exception around the whole run
GenericError(rd, e) == [rd EXCEPT !.error_message = <<"An error occurred", e>>]

\* the early return without its diagnostic
PriceNotFound_NoMessage(rd) == rd

\* both strategies found nothing
PriceNotFound(rd) == [rd EXCEPT !.error_message = <<"Price not found">>]

\* the success flag left unset
PriceFound_NoSuccess(rd, page, price, target) ==
    [rd EXCEPT !.price = Some(price),
               !.availability = Availability(page),
               !.below_target = BelowTarget(price, target)]

\* a price was found: price, availability, below_target, success
PriceFound(rd, page, price, target) ==
    [rd EXCEPT !.price = Some(price),
               !.availability = Availability(page),
               !.below_target = BelowTarget(price, target),
               !.success = TRUE]

\* result_data after the page was parsed, up to the alert decision
ExtractResult(rd, page, target) ==
    LET titled == [rd EXCEPT !.product_title = ProductTitle(page)]
    IN  IF IsSome(CurrentPrice(page))
        THEN PriceFound(titled, page, The(CurrentPrice(page)), target)
        ELSE PriceNotFound(titled)

\* the alert branch is taken at the target price too
AlertDue_OrEqual(page, target) ==
    IsSome(CurrentPrice(page)) /\ Le(The(CurrentPrice(page)), target)

\* the alert branch is taken: current_price < TARGET_PRICE
AlertDue(page, target) ==
    IsSome(CurrentPrice(page)) /\ Lt(The(CurrentPrice(page)), target)

\* the flag set whatever send_price_alert_email returned
WithEmailSent_AlwaysTrue(rd, email_sent) == [rd EXCEPT !.email_sent = TRUE]

\* result_data['email_sent'] = email_sent
WithEmailSent(rd, email_sent) == [rd EXCEPT !.email_sent = email_sent]

(***************************************************************************)
(* The recorders.  A CSV line is the header or one row.                    *)
(***************************************************************************)
HeaderLine == [kind |-> "header", data |-> <<>>]

\* csv_data, the columns job() copies from the observation
CsvData(result) ==
    [timestamp     |-> result.timestamp,
     price         |-> result.price,
     availability  |-> result.availability,
     below_target  |-> result.below_target,
     product_title |-> result.product_title,
     email_sent    |-> result.email_sent]

RowLine(data) == [kind |-> "row", data |-> <<data>>]

\* the lines of price_history.csv after append_to_csv(data)
AppendToCsv(file_exists, lines, data) ==
    IF file_exists THEN Append(lines, RowLine(data))
    ELSE lines \o <<HeaderLine, RowLine(data)>>

\* only successful observations saved
SavePriceData_SuccessOnly(files, data) ==
    IF data.success THEN Append(files, data) ELSE files

\* the JSON files after save_price_data(data)
SavePriceData(files, data) == Append(files, data)

(***************************************************************************)
(* The pages a run may be served.                                          *)
(***************************************************************************)
Alphabet == {"$", "1", "2", ".", "x"}

\* every text over Alphabet of at most n characters
Texts(n) == UNION {[1..k -> Alphabet] : k \in 0..n}

NoSelectors == <<None, None, None>>

\* a page of plain text: no heading, no price element, no button
PlainPage(body) ==
    [h1 |-> None, body |-> body, sel |-> NoSelectors, button |-> None]

EnumPages == {PlainPage(b) : b \in Texts(MaxLen)}

ScenarioText ==
    <<"S", "h", "i", "p", "p", "i", "n", "g", " ", "o", "v", "e",
      "r", " ", "$", "3", "5", " ", "f", "r", "e", "e", "!", " ",
      "C", "o", "d", " ", "2", "l", "b", " ", "$", "1", "8", ".",
      "9", "9", " ", "a", "d", "d", " ", "t", "o", " ", "c", "a",
      "r", "t">>

FixedTexts ==
    {ScenarioText,
     <<"$", "2", " ", "$", "1", "2", " ", "$", "1", "1">>,
     <<"$", "5", ".", "5", " ", "$", "1", "0", "0", " ", "$", "5", "0", ".", " ", "$", "2", "1">>,
     <<"$", "1", "2", ",", "9", "9", "9", " ", "$", "1", "8", ".", "9", "0">>,
     <<"$", " ", "1", "5", " ", "U", "S", "D", " ", "2", "0">>}

FixedPages == {PlainPage(b) : b \in FixedTexts}

ElemTexts ==
    {<<"1", "8", ".", "9", "9">>,
     <<" ", "$", "9", ".", "9", "9", " ">>,
     <<"x">>}

OptElems == {None} \cup {Some(e) : e \in ElemTexts}

Buttons ==
    {None,
     Some([str |-> <<"A", "d", "d", " ", "t", "o", " ", "C", "a", "r", "t">>, visible |-> TRUE]),
     Some([str |-> <<"A", "D", "D", " ", "T", "O", " ", "C", "A", "R", "T">>, visible |-> FALSE]),
     Some([str |-> <<"B", "u", "y">>, visible |-> TRUE])}

Headings == {None, Some(<<" ", "C", "o", "d", " ">>)}

ElemBodies ==
    {<<>>,
     <<"$", "5", " ", "$", "1", "2", " ", "$", "1", "1", " ",
       "A", "d", "d", " ", "T", "o", " ", "C", "a", "r", "t">>,
     <<"$", "5", " ", "a", "d", "d", " ", "t", "o", " ", "c", "a", "r">>,
     <<"$", "9", " ", "a", "d", "d", " ", "t", "o", " ", "c", "a", "r", "t">>,
     <<"$", "2", "1">>}

\* pages with price elements
SelectorPages ==
    {[h1 |-> None, body |-> b, sel |-> <<e1, e2, e3>>, button |-> None] :
        b \in ElemBodies, e1 \in OptElems, e2 \in OptElems, e3 \in OptElems}

\* pages with a heading or a button
ButtonPages ==
    {[h1 |-> h, body |-> b, sel |-> <<None, e2, None>>, button |-> bt] :
        h \in Headings, b \in ElemBodies,
        e2 \in {None, Some(<<"1", "8", ".", "9", "9">>)}, bt \in Buttons}

Pages == EnumPages \cup FixedPages \cup SelectorPages \cup ButtonPages

\* the pages served to the scheduled runs
SchedPages ==
    {PlainPage(<<"$", "1", "2", " ", "a", "d", "d", " ", "t", "o", " ", "c", "a", "r", "t">>),
     PlainPage(<<"$", "2", "2">>),
     PlainPage(<<"x">>),
     [h1 |-> Some(<<"C", "o", "d">>), body |-> <<>>,
      sel |-> <<None, Some(<<"1", "8", ".", "9", "9">>), None>>, button |-> None]}

\* the literal defaults of the module
DefaultTargetPrice == Dec(21, 0)
DefaultZipCode == "78726"
DefaultRecipient == "climate127@gmail.com"

\* TARGET_PRICE: the default 21.00, or a value load_config_from_env parsed
TargetPrices == {DefaultTargetPrice, Dec(12, 0)}

\* a text that float() reads as the whole number d
RECURSIVE NatText(_)
NatText(n) ==
    IF n < 10 THEN <<DigitChars[n + 1]>>
    ELSE NatText(n \div 10) \o <<DigitChars[(n % 10) + 1]>>

DecimalText(d) == NatText(d.num)

(***************************************************************************)
(* load_config_from_env()                                                  *)
(***************************************************************************)
\* os.getenv(name, default) on the optional value of the variable
GetEnv(value, default) == IF IsSome(value) THEN The(value) ELSE default

\* b is what float() accepts after the sign: digits with at most one point
\* and at least one digit (exponents, inf, nan and underscores are outside
\* the texts considered)
IsFloatBody(b) ==
    /\ \A i \in 1..Len(b) : IsDigit(b[i]) \/ b[i] = "."
    /\ \E i \in 1..Len(b) : IsDigit(b[i])
    /\ \A i, j \in 1..Len(b) : (b[i] = "." /\ b[j] = ".") => i = j

\* float(t): None for ValueError
ParseFloat(t) ==
    LET u == Strip(t)
        signed == u # <<>> /\ Head(u) \in {"+", "-"}
        b == IF signed THEN Tail(u) ELSE u
    IN  IF ~IsFloatBody(b) THEN None
        ELSE IF signed /\ Head(u) = "-"
             THEN Some(Dec(0 - Float(b).num, Float(b).exp))
             ELSE Some(Float(b))

\* a value that does not parse resets the target price
LoadedTargetPrice_ZeroOnError(prior, value) ==
    IF IsSome(value) /\ The(value) # <<>>
    THEN IF IsSome(ParseFloat(The(value))) THEN The(ParseFloat(The(value)))
         ELSE Dec(0, 0)
    ELSE prior

\* TARGET_PRICE after lines 52-57, from its prior value and the variable
LoadedTargetPrice(prior, value) ==
    IF IsSome(value) /\ The(value) # <<>>
    THEN IF IsSome(ParseFloat(The(value))) THEN The(ParseFloat(The(value)))
         ELSE prior
    ELSE prior

\* ZIP_CODE after lines 59-61
LoadedZipCode(prior, value) ==
    IF IsSome(value) /\ The(value) # "" THEN The(value) ELSE prior

\* not SENDER_EMAIL or not SENDER_PASSWORD, negated
Configured(sender_email, sender_password) ==
    sender_email # "" /\ sender_password # ""

(***************************************************************************)
(* The environments and arguments a process may be started with.           *)
(***************************************************************************)
EnvAlphabet == {"1", "2", ".", "a", "-", " "}

EnvTexts ==
    UNION {[1..k -> EnvAlphabet] : k \in 0..MaxEnvLen}
        \cup {<<"a", "b", "c">>, <<"2", "1", ".", "0", "0">>, <<"1", "8", ".", "5", "0">>,
              <<" ", "+", "1", "5", " ">>, <<"1", ".", "2", ".", "3">>, <<"$", "2", "0">>}

OptStrings(S) == {None} \cup {Some(x) : x \in S}

\* the environments load_config_from_env is checked on
ConfigEnvirons ==
    [TARGET_PRICE    : OptStrings(EnvTexts),
     SENDER_EMAIL    : OptStrings({"", "sender"}),
     SENDER_PASSWORD : OptStrings({"password"}),
     RECIPIENT_EMAIL : OptStrings({"", "me"}),
     ZIP_CODE        : OptStrings({"", "10001"}),
     GITHUB_ACTIONS  : {None}]

\* the environments the dispatch is followed from
MainEnvirons ==
    [TARGET_PRICE    : OptStrings({<<"a", "b", "c">>, <<"1", "2">>}),
     SENDER_EMAIL    : OptStrings({"sender"}),
     SENDER_PASSWORD : OptStrings({"", "password"}),
     RECIPIENT_EMAIL : {None},
     ZIP_CODE        : {None},
     GITHUB_ACTIONS  : OptStrings({"", "true"})]

Arguments == OptStrings({"test-email", "scheduler", "once", "Scheduler"})

(***************************************************************************)
(* State.                                                                  *)
(***************************************************************************)
VARIABLES
    pc,            \* where the process is: "idle" between jobs, else the next step
    runs,          \* jobs started so far
    TARGET_PRICE,  \* the configured threshold
    credentials,   \* SENDER_EMAIL and SENDER_PASSWORD are both set
    sessions,      \* browser sessions opened and not yet quit
    page,          \* the page this run parsed, if it got that far
    result_data,   \* the observation of this run, once built
    fetches,       \* driver.get calls of this run
    alert_calls,   \* send_price_alert_email calls of this run
    smtp,          \* the SMTP session of this run: "none", "sent" or "failed"
    json_files,    \* the JSON files written, oldest first
    csv_exists,    \* price_history.csv exists
    csv_lines,     \* its lines
    ZIP_CODE,      \* the configured postal code
    RECIPIENT_EMAIL, \* the configured recipient
    environ,       \* os.environ: the variables the script reads
    argv1,         \* sys.argv[1], if given
    mode           \* the entry point __main__ called, "none" before it did

vars == <<pc, runs, TARGET_PRICE, credentials, sessions, page, result_data,
          fetches, alert_calls, smtp, json_files, csv_exists, csv_lines,
          ZIP_CODE, RECIPIENT_EMAIL, environ, argv1, mode>>

process == <<environ, argv1, mode>>
config == <<TARGET_PRICE, credentials, ZIP_CODE, RECIPIENT_EMAIL, process>>
files == <<json_files, csv_exists, csv_lines>>
mail == <<alert_calls, smtp>>

\* an environment that load_config_from_env turns into the given configuration
EnvironFor(target, creds) ==
    [TARGET_PRICE    |-> IF target = DefaultTargetPrice THEN None
                         ELSE Some(DecimalText(target)),
     SENDER_EMAIL    |-> IF creds THEN Some("sender") ELSE None,
     SENDER_PASSWORD |-> IF creds THEN Some("password") ELSE None,
     RECIPIENT_EMAIL |-> None,
     ZIP_CODE        |-> None,
     GITHUB_ACTIONS  |-> Some("true")]

\* the process once __main__ has loaded the configuration and called the entry
\* point m (run_once or run_scheduler), before any job; the CSV file of an
\* earlier process is absent, or present and empty
Booted(m, arg) ==
    /\ pc = "idle"
    /\ mode = m
    /\ argv1 = arg
    /\ ZIP_CODE = DefaultZipCode
    /\ RECIPIENT_EMAIL = DefaultRecipient
    /\ runs = 0
    /\ TARGET_PRICE \in TargetPrices
    /\ credentials \in BOOLEAN
    /\ sessions = 0
    /\ page = None
    /\ result_data = None
    /\ fetches = 0
    /\ alert_calls = 0
    /\ smtp = "none"
    /\ json_files = <<>>
    /\ csv_exists \in BOOLEAN
    /\ csv_lines = <<>>
    /\ environ = EnvironFor(TARGET_PRICE, credentials)

\* the process as __main__ begins: the literal defaults, an environment and
\* an argument list
Started(environs, arguments) ==
    /\ pc = "main"
    /\ mode = "none"
    /\ argv1 \in arguments
    /\ environ \in environs
    /\ TARGET_PRICE = DefaultTargetPrice
    /\ credentials = FALSE
    /\ ZIP_CODE = DefaultZipCode
    /\ RECIPIENT_EMAIL = DefaultRecipient
    /\ runs = 0
    /\ sessions = 0
    /\ page = None
    /\ result_data = None
    /\ fetches = 0
    /\ alert_calls = 0
    /\ smtp = "none"
    /\ json_files = <<>>
    /\ csv_exists \in BOOLEAN
    /\ csv_lines = <<>>

\* python script.py
Init == Booted("run_once", None)

\* python script.py scheduler
InitSched == Booted("run_scheduler", Some("scheduler"))

(***************************************************************************)
(* __main__: the configuration is loaded first.                            *)
(***************************************************************************)
run == <<runs, sessions, page, result_data, fetches, mail, files>>

\* load_config_from_env()
LoadConfig ==
    /\ pc = "main"
    /\ credentials' = Configured(GetEnv(environ.SENDER_EMAIL, ""),
                                 GetEnv(environ.SENDER_PASSWORD, ""))
    /\ RECIPIENT_EMAIL' = GetEnv(environ.RECIPIENT_EMAIL, RECIPIENT_EMAIL)
    /\ TARGET_PRICE' = LoadedTargetPrice(TARGET_PRICE, environ.TARGET_PRICE)
    /\ ZIP_CODE' = LoadedZipCode(ZIP_CODE, environ.ZIP_CODE)
    /\ pc' = "guard"
    /\ UNCHANGED <<process, run>>

NextConfig == LoadConfig

\* load_config_from_env alone, over the environments ConfigEnvirons
SpecConfig == Started(ConfigEnvirons, {None}) /\ [][NextConfig]_vars

(***************************************************************************)
(* job(): started once by run_once, or daily by run_scheduler.             *)
(***************************************************************************)
JobBegin ==
    /\ pc = "idle"
    /\ pc' = "chrome"
    /\ runs' = runs + 1
    /\ page' = None
    /\ result_data' = None
    /\ fetches' = 0
    /\ alert_calls' = 0
    /\ smtp' = "none"
    /\ UNCHANGED <<config, sessions, files>>

RunOnce == mode = "run_once" /\ runs = 0 /\ JobBegin

SchedulerTick == mode = "run_scheduler" /\ runs < MaxRuns /\ JobBegin

(***************************************************************************)
(* check_price_scheduled()                                                 *)
(***************************************************************************)
\* webdriver.Chrome(...) returns a session
CreateDriver ==
    /\ pc = "chrome"
    /\ sessions' = sessions + 1
    /\ pc' = "stealth"
    /\ UNCHANGED <<runs, config, page, result_data, fetches, mail, files>>

\* webdriver.Chrome(...) raises: the exception reaches job()
CreateDriverRaise ==
    /\ pc = "chrome"
    /\ pc' = "job_except"
    /\ UNCHANGED <<runs, config, sessions, page, result_data, fetches, mail, files>>

\* stealth(driver, ...) returns; result_data is built
Stealth ==
    /\ pc = "stealth"
    /\ result_data' = Some(InitialResult(runs, TARGET_PRICE))
    /\ pc' = "get"
    /\ UNCHANGED <<runs, config, sessions, page, fetches, mail, files>>

\* stealth(driver, ...) raises, before the try block: the exception reaches job()
StealthRaise ==
    /\ pc = "stealth"
    /\ pc' = "job_except"
    /\ UNCHANGED <<runs, config, sessions, page, result_data, fetches, mail, files>>

\* driver.get(URL) returns
Navigate ==
    /\ pc = "get"
    /\ fetches' = fetches + 1
    /\ pc' = "zip"
    /\ UNCHANGED <<runs, config, sessions, page, result_data, mail, files>>

\* the exception e is raised at step `at` inside the try block and not handled
\* nearer: except Exception
Raise(at, e) ==
    /\ pc = at
    /\ result_data' = Some(GenericError(The(result_data), e))
    /\ pc' = "finally"
    /\ UNCHANGED <<runs, config, sessions, page, mail, files>>

\* driver.get(URL) raises
NavigateRaise == Raise("get", "navigation") /\ fetches' = fetches + 1

\* the ZIP code is entered and Start Shopping clicked
ZipEntry ==
    /\ pc = "zip"
    /\ pc' = "extract"
    /\ UNCHANGED <<runs, config, sessions, page, result_data, fetches, mail, files>>

\* the ZIP input or the button never becomes clickable: TimeoutException
ZipTimeout ==
    /\ pc = "zip"
    /\ result_data' = Some(ZipFailed(The(result_data)))
    /\ pc' = "finally"
    /\ UNCHANGED <<runs, config, sessions, page, fetches, mail, files>>

\* click, clear or send_keys raises something else
ZipRaise == Raise("zip", "interaction") /\ UNCHANGED fetches

\* execute_script or driver.page_source raises
PageSourceRaise == Raise("extract", "page source") /\ UNCHANGED fetches

\* the page is read and parsed: title, price, availability, alert decision
Extract(p) ==
    /\ pc = "extract"
    /\ page' = Some(p)
    /\ result_data' = Some(ExtractResult(The(result_data), p, TARGET_PRICE))
    /\ pc' = IF AlertDue(p, TARGET_PRICE) THEN "alert" ELSE "finally"
    /\ UNCHANGED <<runs, config, sessions, fetches, mail, files>>

ExtractPage == \E p \in Pages : Extract(p)

ExtractSchedPage == \E p \in SchedPages : Extract(p)

\* send_price_alert_email returns email_sent, having used SMTP as smtp_now
SendAlert(email_sent, smtp_now) ==
    /\ pc = "alert"
    /\ alert_calls' = alert_calls + 1
    /\ smtp' = smtp_now
    /\ result_data' = Some(WithEmailSent(The(result_data), email_sent))
    /\ pc' = "finally"
    /\ UNCHANGED <<runs, config, sessions, page, fetches, files>>

\* the credentials are not configured: nothing is sent
AlertSkipped == ~credentials /\ SendAlert(FALSE, "none")

\* the message is sent
AlertSent == credentials /\ SendAlert(TRUE, "sent")

\* building or sending the message raises: logged, False returned
AlertFailed == credentials /\ SendAlert(FALSE, "failed")

\* finally: driver.quit(); then return result_data
Finally ==
    /\ pc = "finally"
    /\ sessions' = sessions - 1
    /\ pc' = "returned"
    /\ UNCHANGED <<runs, config, page, result_data, fetches, mail, files>>

(***************************************************************************)
(* The rest of job().  The two file writes are taken to succeed: their     *)
(* except branches, which only log the error, are not followed.            *)
(***************************************************************************)
\* save_price_data(result)
SaveJson ==
    /\ pc = "returned"
    /\ json_files' = SavePriceData(json_files, The(result_data))
    /\ pc' = "csv"
    /\ UNCHANGED <<runs, config, sessions, page, result_data, fetches, mail,
                   csv_exists, csv_lines>>

\* append_to_csv(csv_data)
AppendCsv ==
    /\ pc = "csv"
    /\ csv_lines' = AppendToCsv(csv_exists, csv_lines, CsvData(The(result_data)))
    /\ csv_exists' = TRUE
    /\ pc' = "idle"
    /\ UNCHANGED <<runs, config, sessions, page, result_data, fetches, mail,
                   json_files>>

\* except Exception in job(): the error is logged, nothing is recorded
JobExcept ==
    /\ pc = "job_except"
    /\ pc' = "idle"
    /\ UNCHANGED <<runs, config, sessions, page, result_data, fetches, mail, files>>

Run ==
    \/ CreateDriver \/ CreateDriverRaise \/ Stealth \/ StealthRaise
    \/ Navigate \/ NavigateRaise \/ ZipEntry \/ ZipTimeout \/ ZipRaise
    \/ PageSourceRaise \/ AlertSkipped \/ AlertSent \/ AlertFailed
    \/ Finally \/ SaveJson \/ AppendCsv \/ JobExcept

\* run_once mode: one job
Next == RunOnce \/ Run \/ ExtractPage

Spec == Init /\ [][Next]_vars

\* scheduler mode: one job a day
NextSched == SchedulerTick \/ Run \/ ExtractSchedPage

SpecSched == InitSched /\ [][NextSched]_vars

(***************************************************************************)
(* __main__ after the configuration is loaded: the credential check, then  *)
(* the choice of the entry point from sys.argv.                            *)
(***************************************************************************)
\* os.getenv('GITHUB_ACTIONS') is set and not empty
GithubActions == GetEnv(environ.GITHUB_ACTIONS, "") # ""

\* the credentials are configured: the check of line 586 is passed over
CredentialsPresent ==
    /\ pc = "guard"
    /\ credentials
    /\ pc' = "dispatch"
    /\ UNCHANGED <<config, run>>

\* no credentials under GitHub Actions: continue without notifications
ContinueWithoutEmail ==
    /\ pc = "guard"
    /\ ~credentials
    /\ GithubActions
    /\ pc' = "dispatch"
    /\ UNCHANGED <<config, run>>

\* no credentials elsewhere: exit() before any entry point is called
Exit ==
    /\ pc = "guard"
    /\ ~credentials
    /\ ~GithubActions
    /\ pc' = "exited"
    /\ UNCHANGED <<config, run>>

\* every argument other than test-email starts the scheduler
ModeFor_AnyArgumentScheduler(arg) ==
    IF arg = Some("test-email") THEN "test_email"
    ELSE IF IsSome(arg) THEN "run_scheduler"
    ELSE "run_once"

\* the entry point lines 605-614 call for the first argument, None without one
ModeFor(arg) ==
    IF IsSome(arg)
    THEN IF The(arg) = "test-email" THEN "test_email"
         ELSE IF The(arg) = "scheduler" THEN "run_scheduler"
         ELSE "run_once"
    ELSE "run_once"

Dispatch ==
    /\ pc = "dispatch"
    /\ mode' = ModeFor(argv1)
    /\ pc' = IF ModeFor(argv1) = "test_email" THEN "test_email" ELSE "idle"
    /\ UNCHANGED <<TARGET_PRICE, credentials, ZIP_CODE, RECIPIENT_EMAIL,
                   environ, argv1, run>>

\* test_email(): send_price_alert_email on made-up data, nothing else
TestEmail(smtp_now) ==
    /\ pc = "test_email"
    /\ alert_calls' = alert_calls + 1
    /\ smtp' = smtp_now
    /\ pc' = "exited"
    /\ UNCHANGED <<runs, config, sessions, page, result_data, fetches, files>>

TestEmailSkipped == ~credentials /\ TestEmail("none")

TestEmailSent == credentials /\ TestEmail("sent")

TestEmailFailed == credentials /\ TestEmail("failed")

NextMain ==
    \/ LoadConfig
    \/ CredentialsPresent
    \/ ContinueWithoutEmail
    \/ Exit
    \/ Dispatch
    \/ TestEmailSkipped
    \/ TestEmailSent
    \/ TestEmailFailed
    \/ RunOnce
    \/ SchedulerTick
    \/ Run
    \/ ExtractSchedPage

\* the whole process, from the environments MainEnvirons
SpecMain == Started(MainEnvirons, Arguments) /\ [][NextMain]_vars

(***************************************************************************)
(* Vocabulary of the properties, stated on the page and the observation    *)
(* without the operators of the run.                                       *)
(***************************************************************************)
\* check_price_scheduled returns its observation to job()
Returned == pc = "returned"

\* the job is over and did return an observation
JobDone == pc = "idle" /\ IsSome(result_data)

Obs == The(result_data)

PageText == GetText(The(page))

Digits == {"0", "1", "2", "3", "4", "5", "6", "7", "8", "9"}

AllDigits(t, a, b) == \A j \in a..b : t[j] \in Digits

\* t[a..b] is digits, then optionally a point and digits
IsAmount(t, a, b) ==
    \E k \in a..b :
        /\ AllDigits(t, a, k)
        /\ k = b \/ (t[k + 1] = "." /\ AllDigits(t, k + 2, b))

\* a '$'-prefixed amount starts at index i of t
HasAmountAt(t, i) == t[i] = "$" /\ i < Len(t) /\ t[i + 1] \in Digits

\* its value: the longest amount after the '$'
AmountAt(t, i) ==
    LET ends == {j \in (i + 1)..Len(t) : IsAmount(t, i + 1, j)}
        last == CHOOSE j \in ends : \A m \in ends : m <= j
    IN  Float(SubSeq(t, i + 1, last))

Within10To50(v) == 10 * Pow10(v.exp) <= v.num /\ v.num <= 50 * Pow10(v.exp)

InRangeAt(t, i) == HasAmountAt(t, i) /\ Within10To50(AmountAt(t, i))

HasInRangeAmount(t) == \E i \in 1..Len(t) : InRangeAt(t, i)

HasDollarAmount(t) == \E i \in 1..Len(t) : HasAmountAt(t, i)

FirstInRangeAmount(t) ==
    AmountAt(t, CHOOSE i \in 1..Len(t) :
                    InRangeAt(t, i) /\ \A j \in 1..(i - 1) : ~InRangeAt(t, j))

\* no price element of the page holds a digit, so none yields a numeric token
NoSelectorToken(pg) ==
    \A k \in 1..3 :
        IsSome(pg.sel[k]) =>
            \A j \in 1..Len(The(pg.sel[k])) : ~IsDigit(The(pg.sel[k])[j])

SameLetter(c, d) ==
    c = d \/ \E i \in 1..26 : {c, d} = {UpperChars[i], LowerChars[i]}

\* "add to cart" occurs in t, whatever the case of the letters
HasCartPhrase(t) ==
    \E i \in 1..(Len(t) - 10) : \A k \in 1..11 : SameLetter(t[i + k - 1], AddToCart[k])

\* the page text holds the phrase, or a button with that text exists
CartOffered(pg) ==
    \/ HasCartPhrase(GetText(pg))
    \/ IsSome(pg.button) /\ HasCartPhrase(The(pg.button).str)

\* the observation is the newest JSON file and the newest CSV row
Persisted ==
    /\ json_files # <<>> /\ json_files[Len(json_files)] = Obs
    /\ csv_lines # <<>> /\ csv_lines[Len(csv_lines)] = RowLine(CsvData(Obs))

(***************************************************************************)
(* The properties.                                                         *)
(***************************************************************************)

\* C1: when the page text holds a '$'-prefixed amount within [10, 50], the
\* price of the observation is the first such amount in document order,
\* whatever comes before or after it and whatever the price elements hold.
C1_FirstInRangeAmount ==
    (Returned /\ IsSome(page) /\ HasInRangeAmount(PageText)) =>
        Obs.price = Some(FirstInRangeAmount(PageText))

\* an amount out of range, then two different amounts in range, and a price
\* element holding yet another number: the first amount in range is the price
C1_Witness ==
    /\ Returned /\ IsSome(page)
    /\ \E n \in 1..3 :
          /\ IsSome(The(page).sel[n])
          /\ PriceNumbers(The(The(page).sel[n])) # <<>>
    /\ \E j \in 1..Len(PageText) :
          /\ InRangeAt(PageText, j)
          /\ Obs.price = Some(AmountAt(PageText, j))
          /\ \E i \in 1..(j - 1) :
                HasAmountAt(PageText, i) /\ ~InRangeAt(PageText, i)
          /\ \E k \in (j + 1)..Len(PageText) :
                InRangeAt(PageText, k) /\ AmountAt(PageText, j) # AmountAt(PageText, k)

\* the scenario: that text served, the target price 21.00
Scenario ==
    Returned /\ page = Some(PlainPage(ScenarioText)) /\ TARGET_PRICE = Dec(21, 0)

\* C2 as stated: in the scenario of the text "Shipping over $35 free! Cod 2lb
\* $18.99 add to cart" and the target 21.00 the observation has price 18.99,
\* availability Available, below_target true, and an e-mail send was attempted.
C2_ScenarioAsStated ==
    Scenario =>
        /\ Obs.price = Some(Dec(1899, 2))
        /\ Obs.availability = "Available"
        /\ Obs.below_target
        /\ alert_calls = 1

\* C2 as amended: in that scenario the observation has price 35.00, the first
\* amount within [10, 50], availability Available, below_target false, and no
\* e-mail send was attempted.
C2_ScenarioTakesShippingAmount ==
    Scenario =>
        /\ Obs.success
        /\ Obs.price = Some(Dec(35, 0))
        /\ Obs.availability = "Available"
        /\ ~Obs.below_target
        /\ ~Obs.email_sent
        /\ alert_calls = 0 /\ smtp = "none"

C2_Witness == Scenario /\ Obs.price = Some(Dec(35, 0)) /\ alert_calls = 0

\* C3: in the observation a run returns, below_target is true exactly when
\* success is true and the price is less than the target price.
C3_BelowTargetIff ==
    Returned =>
        (Obs.below_target <=>
            /\ Obs.success
            /\ IsSome(Obs.price)
            /\ The(Obs.price).num * Pow10(TARGET_PRICE.exp)
                   < TARGET_PRICE.num * Pow10(The(Obs.price).exp))

\* a successful run whose price equals the target: not below it
C3_Witness ==
    Returned /\ Obs.success /\ Obs.price = Some(TARGET_PRICE) /\ ~Obs.below_target

\* C4: a page with no '$' amount within [10, 50] and no price element holding
\* a numeric token gives an extraction failure: no price, success false, a
\* diagnostic, availability and below_target as first built, no alert.
C4_ExtractionFailure ==
    (Returned /\ IsSome(page) /\ ~HasInRangeAmount(PageText)
        /\ NoSelectorToken(The(page))) =>
        /\ Obs.price = None
        /\ ~Obs.success
        /\ Obs.error_message = <<"Price not found">>
        /\ Obs.availability = "Unknown"
        /\ ~Obs.below_target
        /\ alert_calls = 0

\* such a page that offers "add to cart", holds an amount out of range and a
\* price element without a number
C4_Witness ==
    /\ Returned /\ IsSome(page)
    /\ ~HasInRangeAmount(PageText) /\ NoSelectorToken(The(page))
    /\ HasDollarAmount(PageText)
    /\ HasCartPhrase(PageText)
    /\ \E k \in 1..3 : IsSome(The(page).sel[k])
    /\ Obs.availability = "Unknown"

\* C5 as stated: the availability of the observation of a parsed page is
\* "Available" when "add to cart" is in the page text in any case or on a
\* button, and "Unavailable" in every other case.
C5_AvailabilityAsStated ==
    (Returned /\ IsSome(page)) =>
        Obs.availability =
            IF CartOffered(The(page)) THEN "Available" ELSE "Unavailable"

\* C5 as amended: that holds of the runs that succeed; the observation of a
\* run that fails keeps the availability "Unknown".
C5_AvailabilityOnSuccess ==
    Returned =>
        /\ Obs.success =>
              /\ IsSome(page)
              /\ Obs.availability =
                    IF CartOffered(The(page)) THEN "Available" ELSE "Unavailable"
        /\ ~Obs.success => Obs.availability = "Unknown"

\* available by the words in the text, in capitals
C5_Witness ==
    /\ Returned /\ Obs.success /\ Obs.availability = "Available"
    /\ HasCartPhrase(PageText) /\ ~Contains(PageText, AddToCart)

HeaderCount == Cardinality({i \in 1..Len(csv_lines) : csv_lines[i].kind = "header"})

RowCount == Cardinality({i \in 1..Len(csv_lines) : csv_lines[i].kind = "row"})

\* C6 as stated: after N >= 1 jobs, whatever their outcomes and whether the
\* CSV file was absent or present and empty before the first, the file holds
\* exactly one header row and exactly N data rows.
C6_OneHeaderAndNRows ==
    (pc = "idle" /\ runs >= 1) => (HeaderCount = 1 /\ RowCount = runs)

\* the page was parsed and the run is over
AfterParse == pc \in {"returned", "csv", "idle"} /\ IsSome(page)

\* C7 as stated: a page whose text holds no dollar amount at all gives a
\* failed run with no e-mail attempted, and the observation is persisted with
\* its error message.
C7_NoDollarAmountAsStated ==
    (AfterParse /\ ~HasDollarAmount(PageText)) =>
        /\ ~Obs.success
        /\ Obs.error_message # None
        /\ alert_calls = 0
        /\ pc = "idle" => Persisted

\* C7 as amended: that holds of the pages that moreover have no price element
\* holding a numeric token.
C7_NoDollarAmountNoToken ==
    (AfterParse /\ ~HasDollarAmount(PageText) /\ NoSelectorToken(The(page))) =>
        /\ ~Obs.success
        /\ Obs.price = None
        /\ Obs.error_message = <<"Price not found">>
        /\ alert_calls = 0 /\ smtp = "none"
        /\ pc = "idle" => Persisted

\* such a page, with digits in its text and a price element without any,
\* once the job has written both files
C7_Witness ==
    /\ JobDone /\ IsSome(page) /\ Persisted
    /\ ~HasDollarAmount(PageText) /\ NoSelectorToken(The(page))
    /\ \E i \in 1..Len(PageText) : PageText[i] \in Digits
    /\ Obs.error_message = <<"Price not found">>

\* C8 as stated: whenever check_price_scheduled is not running, by return or
\* by exception, no browser session it opened is left open.
C8_SessionReleased ==
    pc \in {"idle", "job_except", "returned", "csv"} => sessions = 0

\* C9: when the price is below target and the e-mail transport fails, the
\* observation keeps success true, the extracted price and below_target true,
\* records email_sent false, and the job writes the JSON file and the CSV row.
C9_MailFailureNotFatal ==
    smtp = "failed" =>
        /\ IsSome(page) /\ IsSome(result_data)
        /\ Obs.success
        /\ Obs.price = CurrentPrice(The(page))
        /\ Obs.below_target
        /\ ~Obs.email_sent
        /\ Obs.error_message = None
        /\ pc \in {"finally", "returned", "csv", "idle"}
        /\ pc = "idle" => Persisted

C9_Witness ==
    /\ JobDone /\ smtp = "failed" /\ Persisted
    /\ Lt(The(Obs.price), TARGET_PRICE)
    /\ csv_lines[Len(csv_lines)].data[1].email_sent = FALSE

\* C10: in the observation a run returns, success false implies no price,
\* and an error message is present only when success is false.
C10_FailureHasNoPrice ==
    Returned =>
        /\ ~Obs.success => Obs.price = None
        /\ Obs.error_message # None => ~Obs.success

\* the generic handler after the page was asked for
C10_Witness ==
    /\ Returned
    /\ Obs.error_message = <<"An error occurred", "page source">>
    /\ ~Obs.success /\ Obs.price = None

\* the text is a number as float() reads it: spaces around, a sign, digits
\* with at most one point among them
IsDecimalText(t) ==
    \E a, b \in 1..Len(t) :
        /\ a <= b
        /\ \A i \in 1..(a - 1) : t[i] = " "
        /\ \A i \in (b + 1)..Len(t) : t[i] = " "
        /\ \E f \in {a, a + 1} :
              /\ f = a + 1 => t[a] \in {"+", "-"}
              /\ f <= b
              /\ \A i \in f..b : t[i] \in Digits \cup {"."}
              /\ \E i \in f..b : t[i] \in Digits
              /\ Cardinality({i \in f..b : t[i] = "."}) <= 1

\* the digits of t read as one whole number, and how many follow the point
DigitsOf(t) == SelectSeq(t, LAMBDA c : c \in Digits)

AfterPoint(t) ==
    IF \E i \in 1..Len(t) : t[i] = "."
    THEN Cardinality({i \in 1..Len(t) :
                         t[i] \in Digits /\ \E j \in 1..(i - 1) : t[j] = "."})
    ELSE 0

\* d is the number the decimal text t writes
Writes(t, d) ==
    LET n == Float(DigitsOf(t)).num
        s == IF \E i \in 1..Len(t) : t[i] = "-" THEN 0 - n ELSE n
    IN  d.num * Pow10(AfterPoint(t)) = s * Pow10(d.exp)

TargetPriceEnv == environ.TARGET_PRICE

Loaded == pc # "main"

\* C12: after load_config_from_env the target price is the default when
\* TARGET_PRICE is unset, empty or no decimal, and the number it writes
\* otherwise; the other values are what their own variables say, whatever
\* TARGET_PRICE holds.
C12_InvalidTargetKeepsDefault ==
    Loaded =>
        /\ IF IsSome(TargetPriceEnv) /\ IsDecimalText(The(TargetPriceEnv))
           THEN Writes(The(TargetPriceEnv), TARGET_PRICE)
           ELSE TARGET_PRICE = DefaultTargetPrice
        /\ ZIP_CODE = IF environ.ZIP_CODE \in {None, Some("")}
                      THEN DefaultZipCode ELSE The(environ.ZIP_CODE)
        /\ RECIPIENT_EMAIL = IF environ.RECIPIENT_EMAIL = None
                             THEN DefaultRecipient ELSE The(environ.RECIPIENT_EMAIL)
        /\ credentials <=> /\ environ.SENDER_EMAIL \notin {None, Some("")}
                           /\ environ.SENDER_PASSWORD \notin {None, Some("")}

\* TARGET_PRICE=abc: the default is kept and the postal code is still loaded
C12_Witness ==
    /\ Loaded
    /\ TargetPriceEnv = Some(<<"a", "b", "c">>)
    /\ TARGET_PRICE = DefaultTargetPrice
    /\ ZIP_CODE = "10001"
    /\ credentials

\* the process is past the choice of its entry point, or has ended
Dispatched == pc \notin {"main", "guard", "dispatch"}

\* the mode the first argument stands for
StatedMode ==
    CASE argv1 = None -> "run_once"
      [] argv1 = Some("scheduler") -> "run_scheduler"
      [] argv1 = Some("test-email") -> "test_email"
      [] OTHER -> "run_once"

\* what the chosen mode does: one pipeline run, or the synthetic alert with
\* no fetch
ModeAsStated ==
    /\ mode = StatedMode
    /\ mode = "run_once" => runs <= 1
    /\ mode = "test_email" =>
          /\ runs = 0 /\ fetches = 0 /\ sessions = 0 /\ json_files = <<>>
          /\ pc = "exited" => alert_calls = 1

SenderSet ==
    /\ environ.SENDER_EMAIL \notin {None, Some("")}
    /\ environ.SENDER_PASSWORD \notin {None, Some("")}

InGithubActions == environ.GITHUB_ACTIONS \notin {None, Some("")}

\* C11 as stated: every invocation, whatever the configuration, runs the
\* mode its argument stands for.
C11_DispatchAsStated == Dispatched => ModeAsStated

\* C11: with the sender credentials set, or under GitHub Actions, the
\* invocation runs the mode its argument stands for; otherwise the process
\* exits before any mode: no run, no fetch, no send.
C11_DispatchUnlessExit ==
    Dispatched =>
        IF SenderSet \/ InGithubActions
        THEN ModeAsStated
        ELSE /\ pc = "exited"
             /\ mode = "none"
             /\ runs = 0 /\ fetches = 0 /\ alert_calls = 0 /\ sessions = 0

\* test-email without credentials under GitHub Actions: the alert function
\* was called once and nothing was fetched
C11_Witness ==
    /\ pc = "exited"
    /\ mode = "test_email"
    /\ ~SenderSet
    /\ alert_calls = 1
    /\ fetches = 0

\* the current run has failed: an error is recorded in its observation, the
\* mail transport failed, or the job itself raised
RunFailed ==
    \/ IsSome(result_data) /\ Obs.error_message # None
    \/ smtp = "failed"
    \/ pc = "job_except"

\* the run has extracted a price strictly below the target
ExtractedBelowTarget ==
    /\ IsSome(result_data)
    /\ Obs.price # None
    /\ Lt(The(Obs.price), TARGET_PRICE)

\* C13: each run fetches the page at most once and calls the alert sender at
\* most once, calls it only after extracting a price strictly below the
\* target, and once a run has failed nothing is fetched or sent until the
\* next run starts.
C13_NoRetry ==
    /\ [](/\ fetches <= 1
          /\ alert_calls <= 1
          /\ alert_calls = 1 => fetches = 1 /\ ExtractedBelowTarget)
    /\ [][(RunFailed /\ runs' = runs) =>
             (fetches' = fetches /\ alert_calls' = alert_calls)]_vars

\* the second scheduled run fetches and sends once, after a first run that
\* failed and was recorded as such
C13_Witness ==
    /\ runs = 2
    /\ json_files # <<>>
    /\ ~json_files[1].success
    /\ fetches = 1
    /\ alert_calls = 1
    /\ ExtractedBelowTarget

====
